---------------------------- MODULE Spec2Model ----------------------------
(***************************************************************************)
(* A model of tcm_analysis.c: five Python entry points over NumPy arrays,  *)
(* each an OpenMP "parallel for" over rows (or columns) of float data.     *)
(* The state is the argument tuple, the position of the calling thread,    *)
(* the freshly allocated result buffer and, per OpenMP thread, its loop    *)
(* position and its private accumulators.                                  *)
(***************************************************************************)
EXTENDS Integers, Sequences, FiniteSets, TLC

(***************************************************************************)
(* The C type float.  A binary floating-point format with round to nearest *)
(* even, gradual underflow, overflow to infinity and NaN, scaled down from *)
(* IEEE binary32 (24-bit significand) to a FloatP-bit significand so that  *)
(* every operation can be computed exactly on integers.  A finite value is *)
(* the integer k standing for k * 2^-FloatQ; the largest finite value is   *)
(* KMax.  The sign of zero is not kept: C compares -0.0f == 0.0f.          *)
(***************************************************************************)
FloatP == 4
FloatQ == 8
FloatE == 10

Unit == 2 ^ FloatQ
KMax == (2 ^ FloatP - 1) * 2 ^ FloatE
PInf == KMax + 1
NInf == 0 - PInf
NaN == KMax + 2

IsNaN(a) == a = NaN
IsFinite(a) == a >= 0 - KMax /\ a <= KMax
Abs(a) == IF a < 0 THEN 0 - a ELSE a
Sgn(a) == IF a < 0 THEN 0 - 1 ELSE 1

RECURSIVE StepFor(_)
\* the spacing of the floats around q: 1 while q fits FloatP bits, doubling per binade
StepFor(q) == IF q < 2 ^ FloatP THEN 1 ELSE 2 * StepFor(q \div 2)

\* a / (d * k) rounded to an integer, ties to even, times k: the float nearest to a / d
\* when k is the spacing of the floats around a / d; overflow gives PInf
RoundAt(a, d, k) ==
    LET m == a \div (d * k)
        rem == a - m * (d * k)
        up == IF 2 * rem > d * k \/ (2 * rem = d * k /\ m % 2 = 1) THEN 1 ELSE 0
    IN  IF (m + up) * k > KMax THEN PInf ELSE (m + up) * k

\* a / d (a >= 0, d > 0) rounded to the nearest float, ties to even, overflow to PInf
RoundMag(a, d) == CHOOSE r \in {RoundAt(a, d, k) : k \in {StepFor(a \div d)}} : TRUE

Round(n, d) == Sgn(n) * RoundMag(Abs(n), d)

\* C evaluates the operands of an operator once, to values, before it applies it
Strict1(Op(_), a) == CHOOSE r \in {Op(x) : x \in {a}} : TRUE
Strict2(Op(_, _), a, b) == CHOOSE r \in {Op(x, y) : x \in {a}, y \in {b}} : TRUE

\* C comparison operators on float: every comparison with NaN is false
GtOp(a, b) == ~IsNaN(a) /\ ~IsNaN(b) /\ a > b
Gt(a, b) == Strict2(GtOp, a, b)

NegOp(a) == IF IsNaN(a) THEN NaN ELSE 0 - a
Neg(a) == Strict1(NegOp, a)

AddOp(a, b) ==
    IF IsNaN(a) \/ IsNaN(b) THEN NaN
    ELSE IF ~IsFinite(a) THEN (IF ~IsFinite(b) /\ a # b THEN NaN ELSE a)
    ELSE IF ~IsFinite(b) THEN b
    ELSE Round(a + b, 1)
Add(a, b) == Strict2(AddOp, a, b)

Sub(a, b) == Add(a, Neg(b))

MulOp(a, b) ==
    IF IsNaN(a) \/ IsNaN(b) THEN NaN
    ELSE IF ~IsFinite(a) \/ ~IsFinite(b)
         THEN (IF a = 0 \/ b = 0 THEN NaN ELSE Sgn(a) * Sgn(b) * PInf)
    ELSE Round(a * b, Unit)
Mul(a, b) == Strict2(MulOp, a, b)

DivOp(a, b) ==
    IF IsNaN(a) \/ IsNaN(b) THEN NaN
    ELSE IF ~IsFinite(a) THEN (IF ~IsFinite(b) THEN NaN ELSE Sgn(a) * Sgn(b) * PInf)
    ELSE IF ~IsFinite(b) THEN 0
    ELSE IF b = 0 THEN (IF a = 0 THEN NaN ELSE Sgn(a) * PInf)
    ELSE Sgn(a) * Sgn(b) * RoundMag(Abs(a) * Unit, Abs(b))
Div(a, b) == Strict2(DivOp, a, b)

RECURSIVE ISqrtFrom(_, _, _)
\* the largest integer r with r * r <= x, found bit by bit from the highest bit down
ISqrtFrom(x, r, bit) ==
    IF bit = 0 THEN r
    ELSE IF (r + bit) * (r + bit) <= x THEN ISqrtFrom(x, r + bit, bit \div 2)
    ELSE ISqrtFrom(x, r, bit \div 2)

ISqrt(x) == ISqrtFrom(x, 0, 2 ^ (FloatQ + FloatP))

\* the float nearest to the square root of a >= 0 when lo and lo + step are the floats
\* around it: it is above their midpoint iff (2 lo + step)^2 > 4 * a * Unit
SqrtAt(a, lo, step) ==
    IF (2 * lo + step) * (2 * lo + step) < 4 * a * Unit
       \/ ((2 * lo + step) * (2 * lo + step) = 4 * a * Unit /\ (lo \div step) % 2 = 1)
    THEN lo + step ELSE lo

SqrtFrom(a, root) ==
    CHOOSE v \in {SqrtAt(a, (root \div step) * step, step) : step \in {StepFor(root)}} : TRUE

SqrtMag(a) == CHOOSE v \in {SqrtFrom(a, root) : root \in {ISqrt(a * Unit)}} : TRUE

\* sqrtf (NaN below zero)
SqrtOp(a) ==
    IF IsNaN(a) \/ a < 0 THEN NaN
    ELSE IF a = PInf THEN PInf
    ELSE SqrtMag(a)
Sqrt(a) == Strict1(SqrtOp, a)

\* the value of a step function given by <<from, value>> pairs in increasing order
StepValue(steps, a) ==
    LET k == CHOOSE i \in 1..Len(steps) :
                 /\ steps[i][1] <= a
                 /\ (i = Len(steps) \/ steps[i + 1][1] > a)
    IN  steps[k][2]

\* expf rounded to the format: exp(a * 2^-FloatQ) * 2^FloatQ from each breakpoint on
ExpSteps ==
    << <<0 - KMax, 0>>, <<-1536, 1>>, <<-1280, 2>>, <<-1152, 3>>, <<-1024, 5>>,
       <<-960, 6>>, <<-896, 8>>, <<-832, 10>>, <<-768, 13>>, <<-704, 16>>,
       <<-640, 22>>, <<-576, 26>>, <<-512, 36>>, <<-480, 40>>, <<-448, 44>>,
       <<-416, 52>>, <<-384, 56>>, <<-352, 64>>, <<-320, 72>>, <<-288, 80>>,
       <<-256, 96>>, <<-240, 104>>, <<-208, 112>>, <<-192, 120>>, <<-176, 128>>,
       <<-160, 144>>, <<-128, 160>>, <<-104, 176>>, <<-80, 192>>, <<-60, 208>>,
       <<-40, 224>>, <<-24, 240>>, <<-8, 256>>, <<16, 288>>, <<44, 320>>,
       <<72, 352>>, <<96, 384>>, <<120, 416>>, <<144, 448>>, <<160, 480>>,
       <<176, 512>>, <<208, 576>>, <<224, 640>>, <<256, 704>>, <<288, 768>>,
       <<320, 896>>, <<352, 1024>>, <<384, 1152>>, <<416, 1280>>, <<448, 1536>>,
       <<480, 1664>>, <<512, 1920>>, <<576, 2304>>, <<640, 3072>>, <<704, 4096>>,
       <<768, 5120>>, <<832, 6656>>, <<896, 8192>>, <<960, 11264>>, <<1024, 14336>>,
       <<1152, PInf>> >>

ExpOp(a) ==
    IF IsNaN(a) THEN NaN
    ELSE IF a = PInf THEN PInf
    ELSE IF a = NInf THEN 0
    ELSE StepValue(ExpSteps, a)
Exp(a) == Strict1(ExpOp, a)

\* tanhf rounded to the format, for a >= 0; below the first breakpoint tanh(a) rounds to a
TanhSteps ==
    << <<96, 88>>, <<104, 96>>, <<112, 104>>, <<120, 112>>, <<128, 120>>,
       <<144, 128>>, <<160, 144>>, <<176, 160>>, <<208, 176>>, <<240, 192>>,
       <<288, 208>>, <<320, 224>>, <<416, 240>>, <<576, 256>> >>

TanhMag(a) ==
    IF a = PInf THEN Unit
    ELSE IF a < TanhSteps[1][1] THEN a
    ELSE StepValue(TanhSteps, a)

TanhOp(a) == IF IsNaN(a) THEN NaN ELSE Sgn(a) * TanhMag(Abs(a))
Tanh(a) == Strict1(TanhOp, a)

\* conversion of an int to float (mean /= n_samples, similarity / pattern_length)
IntToFloat(n) == Round(n * Unit, 1)


(***************************************************************************)
(* Python objects handed to an entry point.  An ndarray carries its dtype, *)
(* its dims and its data buffer as the kernel sees it through the float    *)
(* pointer taken from PyArray_DATA: a flat sequence of floats.             *)
(***************************************************************************)
Array(dtype, dims, data) ==
    [type |-> "ndarray", dtype |-> dtype, dims |-> dims, data |-> data]
PyFloat(v) == [type |-> "float", dtype |-> "", dims |-> <<>>, data |-> <<v>>]
PyStr == [type |-> "str", dtype |-> "", dims |-> <<>>, data |-> <<>>]

Kernels ==
    {"tcm_syndrome_analysis", "health_data_normalize", "nutrition_optimization",
     "biometric_processing", "pattern_matching"}

\* the value a cell of the result holds between PyArray_SimpleNew and its first store
Uninit == NaN + 1

\* program constants as floats of the format: 1.0f, 0.0f, 0.1f and 1e-8f (scaled: below ulp(1)/2)
ONE == 256
ZERO == 0
TENTH == 26
EPS == 4

VARIABLES
    fn,            \* the entry point called
    args,          \* the argument tuple (input objects and their buffers)
    nthreads,      \* size of the OpenMP team
    pc,            \* position of the calling thread
    ret,           \* what the call returned: "none" (still running), "NULL", "result"
    err,           \* the Python error set: "none", "ParseError", "TypeError"
    result,        \* data buffer of the result array; <<>> before it is allocated
    profile_norm,  \* nutrition_optimization: norm of the profile (calling thread)
    mi,            \* nutrition_optimization: index of the sequential norm loop
    claimed,       \* outer-loop iterations handed to a thread
    it,            \* per thread: phase, outer index o, inner index k
    acc,           \* per thread: the variables declared inside the loop body
    access,        \* the buffer accesses <<buffer, index>> of the last step (0 = result)
    wcount,        \* per result index: number of stores so far
    writers,       \* per result index: <<thread, its outer iteration>> of each store
    path           \* per result index: the branch that stored it

vars == <<fn, args, nthreads, pc, ret, err, result, profile_norm, mi, claimed, it, acc,
          access, wcount, writers, path>>

\* PyArg_ParseTuple formats
Format ==
    CASE fn = "tcm_syndrome_analysis" -> <<"O", "O", "O">>
      [] fn = "health_data_normalize" -> <<"O">>
      [] fn = "nutrition_optimization" -> <<"O", "O">>
      [] fn = "biometric_processing" -> <<"O", "f">>
      [] fn = "pattern_matching" -> <<"O", "O">>

\* PyArg_ParseTuple: the argument count matches and every "f" argument is a real number
PyArg_ParseTuple ==
    /\ Len(args) = Len(Format)
    /\ \A k \in 1..Len(Format) : Format[k] = "f" => args[k].type = "float"

PyArray_Check(o) == o.type = "ndarray"

\* the arguments the entry point hands to PyArray_Check
ArrayArgs == {k \in 1..Len(Format) : Format[k] = "O"}

\* the argument that is the matrix: patterns, data, food_database, biomarkers, database
MatArg ==
    CASE fn = "tcm_syndrome_analysis" -> 3
      [] fn = "health_data_normalize" -> 1
      [] fn = "nutrition_optimization" -> 2
      [] fn = "biometric_processing" -> 1
      [] fn = "pattern_matching" -> 2

PyArray_DIM(o, d) == o.dims[d + 1]

\* bound of the parallel loop: n_patterns, n_features (columns), n_foods, n_samples, n_patterns
OuterCount ==
    CASE fn = "health_data_normalize" -> PyArray_DIM(args[MatArg], 1)
      [] OTHER -> PyArray_DIM(args[MatArg], 0)

\* bound of the inner loops: n_symptoms, n_samples (rows), n_features, n_markers, pattern_length
InnerCount ==
    CASE fn = "tcm_syndrome_analysis" -> PyArray_DIM(args[1], 0)
      [] fn = "health_data_normalize" -> PyArray_DIM(args[MatArg], 0)
      [] OTHER -> PyArray_DIM(args[MatArg], 1)

\* number of elements of the result: dims handed to PyArray_SimpleNew
ResultSize ==
    CASE fn \in {"health_data_normalize", "biometric_processing"} ->
             PyArray_DIM(args[MatArg], 0) * PyArray_DIM(args[MatArg], 1)
      [] OTHER -> PyArray_DIM(args[MatArg], 0)

\* the row stride forgotten: i + j
IdxNoStride(i, n, j) == i + j

\* an index one element too far: i * n + j + 1
IdxOffByOne(i, n, j) == i * n + j + 1

\* row-major element index: i * n + j
Idx(i, n, j) == i * n + j

\* the stores going to the matrix argument: the kernel working in place
ResultBufferInPlace == MatArg

\* the buffer the stores go to: result_data / result_ptr is PyArray_DATA(result)
ResultBuffer == 0

BufLen(b) == IF b = 0 THEN Len(result) ELSE Len(args[b].data)

\* what a read outside its buffer may yield
UBValues == {ZERO, NaN}

Load(b, idx) ==
    IF idx >= 0 /\ idx < Len(args[b].data) THEN {args[b].data[idx + 1]} ELSE UBValues

Threads == 1..nthreads
Idle == [ph |-> "idle", o |-> 0, k |-> 0]
Locals ==
    [score |-> ZERO, mean |-> ZERO, variance |-> ZERO, std |-> ZERO,
     dot_product |-> ZERO, food_norm |-> ZERO, similarity |-> ZERO]

\* the loop-body variables declared outside the parallel loop: one copy for all threads
SlotShared(w) == 1

\* where thread w keeps the variables declared inside the loop body: its own stack
Slot(w) == w

\* first phase of an iteration of the parallel loop
FirstPhase ==
    CASE fn = "health_data_normalize" -> "mean"
      [] fn = "biometric_processing" -> "map"
      [] OTHER -> "sum"

\* a store of v to element idx of the result by thread w through branch p
Store(w, idx, v, p) ==
    /\ IF ResultBuffer = 0
       THEN /\ result' = IF idx >= 0 /\ idx < Len(result)
                         THEN [result EXCEPT ![idx + 1] = v] ELSE result
            /\ args' = args
       ELSE /\ args' = IF idx >= 0 /\ idx < BufLen(ResultBuffer)
                       THEN [args EXCEPT ![ResultBuffer].data[idx + 1] = v] ELSE args
            /\ result' = result
    /\ IF idx >= 0 /\ idx < Len(wcount)
       THEN /\ wcount' = [wcount EXCEPT ![idx + 1] = @ + 1]
            /\ writers' = [writers EXCEPT ![idx + 1] = @ \cup {<<w, it[w].o>>}]
            /\ path' = [path EXCEPT ![idx + 1] = p]
       ELSE UNCHANGED <<wcount, writers, path>>

\* ---------------------------------------------------------------- calling thread

\* lines 17-19, 63-65, 115-117, 172-174, 213-215
ParseFail ==
    /\ pc = "parse"
    /\ ~PyArg_ParseTuple
    /\ pc' = "done" /\ ret' = "NULL" /\ err' = "ParseError"
    /\ access' = {}
    /\ UNCHANGED <<fn, args, nthreads, result, profile_norm, mi, claimed, it, acc,
                   wcount, writers, path>>

ParseOk ==
    /\ pc = "parse"
    /\ PyArg_ParseTuple
    /\ pc' = "check"
    /\ access' = {}
    /\ UNCHANGED <<fn, args, nthreads, ret, err, result, profile_norm, mi, claimed, it,
                   acc, wcount, writers, path>>

\* lines 22-25, 67-70, 119-122, 176-179, 217-220
CheckFail ==
    /\ pc = "check"
    /\ \E k \in ArrayArgs : ~PyArray_Check(args[k])
    /\ pc' = "done" /\ ret' = "NULL" /\ err' = "TypeError"
    /\ access' = {}
    /\ UNCHANGED <<fn, args, nthreads, result, profile_norm, mi, claimed, it, acc,
                   wcount, writers, path>>

CheckOk ==
    /\ pc = "check"
    /\ \A k \in ArrayArgs : PyArray_Check(args[k])
    /\ pc' = "alloc"
    /\ access' = {}
    /\ UNCHANGED <<fn, args, nthreads, ret, err, result, profile_norm, mi, claimed, it,
                   acc, wcount, writers, path>>

\* PyArray_SimpleNew: an uninitialised buffer of the result's size
Alloc ==
    /\ pc = "alloc"
    /\ result' = [k \in 1..ResultSize |-> Uninit]
    /\ wcount' = [k \in 1..ResultSize |-> 0]
    /\ writers' = [k \in 1..ResultSize |-> {}]
    /\ path' = [k \in 1..ResultSize |-> "none"]
    /\ pc' = IF fn = "nutrition_optimization" THEN "norm" ELSE "parallel"
    /\ access' = {}
    /\ UNCHANGED <<fn, args, nthreads, ret, err, profile_norm, mi, claimed, it, acc>>

\* lines 137-139: profile_norm += profile_data[i] * profile_data[i]
ProfileNormStep ==
    /\ pc = "norm"
    /\ mi < InnerCount
    /\ \E p \in Load(1, mi) : profile_norm' = Add(profile_norm, Mul(p, p))
    /\ mi' = mi + 1
    /\ access' = {<<1, mi>>}
    /\ UNCHANGED <<fn, args, nthreads, pc, ret, err, result, claimed, it, acc,
                   wcount, writers, path>>

\* line 140: profile_norm = sqrtf(profile_norm), then the parallel region starts
ProfileNormEnd ==
    /\ pc = "norm"
    /\ mi >= InnerCount
    /\ profile_norm' = Sqrt(profile_norm)
    /\ pc' = "parallel"
    /\ access' = {}
    /\ UNCHANGED <<fn, args, nthreads, ret, err, result, mi, claimed, it, acc,
                   wcount, writers, path>>

\* a "nowait" loop: the calling thread goes on once every iteration is handed out
BarrierNowait == claimed = 0..(OuterCount - 1)

\* the implicit barrier at the end of "#pragma omp parallel for"
Barrier ==
    /\ claimed = 0..(OuterCount - 1)
    /\ \A w \in Threads : it[w].ph = "idle"

\* return (PyObject*)result
Return ==
    /\ pc = "parallel"
    /\ Barrier
    /\ pc' = "done" /\ ret' = "result"
    /\ access' = {}
    /\ UNCHANGED <<fn, args, nthreads, err, result, profile_norm, mi, claimed, it, acc,
                   wcount, writers, path>>

\* ---------------------------------------------------------------- OpenMP threads

\* a thread takes an iteration of the parallel loop nobody has taken; the variables
\* declared in the loop body start from their initialisers
BeginIter(w) ==
    /\ pc = "parallel"
    /\ it[w].ph = "idle"
    /\ \E o \in (0..(OuterCount - 1)) \ claimed :
          /\ claimed' = claimed \cup {o}
          /\ it' = [it EXCEPT ![w] = [ph |-> FirstPhase, o |-> o, k |-> 0]]
    /\ acc' = [acc EXCEPT ![Slot(w)] = Locals]
    /\ access' = {}
    /\ UNCHANGED <<fn, args, nthreads, pc, ret, err, result, profile_norm, mi,
                   wcount, writers, path>>

\* the end of the loop body: the thread is free for another iteration
EndIter(w) ==
    /\ it' = [it EXCEPT ![w] = Idle]
    /\ acc' = [acc EXCEPT ![Slot(w)] = Locals]

NextK(w) == it' = [it EXCEPT ![w].k = @ + 1]

\* the 1.0f + of the denominator left out
SigmoidNoOne(score) == Div(ONE, Exp(Neg(score)))

\* line 53: 1.0f / (1.0f + expf(-score))
Sigmoid(score) == Div(ONE, Add(ONE, Exp(Neg(score))))

\* lines 46-50
TcmSum(w) ==
    /\ fn = "tcm_syndrome_analysis" /\ pc = "parallel"
    /\ it[w].ph = "sum"
    /\ it[w].k < InnerCount
    /\ LET j == it[w].k
           pi == Idx(it[w].o, InnerCount, j)
       IN  /\ \E s \in Load(1, j), wt \in Load(2, j), p \in Load(3, pi) :
                 acc' = [acc EXCEPT ![Slot(w)].score = Add(@, Mul(Mul(s, wt), p))]
           /\ access' = {<<1, j>>, <<2, j>>, <<3, pi>>}
    /\ NextK(w)
    /\ UNCHANGED <<fn, args, nthreads, pc, ret, err, result, profile_norm, mi, claimed,
                   wcount, writers, path>>

\* line 53
TcmStore(w) ==
    /\ fn = "tcm_syndrome_analysis" /\ pc = "parallel"
    /\ it[w].ph = "sum"
    /\ it[w].k >= InnerCount
    /\ Store(w, it[w].o, Sigmoid(acc[Slot(w)].score), "sigmoid")
    /\ access' = {<<ResultBuffer, it[w].o>>}
    /\ EndIter(w)
    /\ UNCHANGED <<fn, nthreads, pc, ret, err, profile_norm, mi, claimed>>

\* lines 89-91: mean += data_ptr[i * n_features + j]
NormMean(w) ==
    /\ fn = "health_data_normalize" /\ pc = "parallel"
    /\ it[w].ph = "mean"
    /\ it[w].k < InnerCount
    /\ LET di == Idx(it[w].k, OuterCount, it[w].o)
       IN  /\ \E d \in Load(1, di) : acc' = [acc EXCEPT ![Slot(w)].mean = Add(@, d)]
           /\ access' = {<<1, di>>}
    /\ NextK(w)
    /\ UNCHANGED <<fn, args, nthreads, pc, ret, err, result, profile_norm, mi, claimed,
                   wcount, writers, path>>

\* line 92: mean /= n_samples
NormMeanEnd(w) ==
    /\ fn = "health_data_normalize" /\ pc = "parallel"
    /\ it[w].ph = "mean"
    /\ it[w].k >= InnerCount
    /\ acc' = [acc EXCEPT ![Slot(w)].mean = Div(@, IntToFloat(InnerCount))]
    /\ it' = [it EXCEPT ![w].ph = "var", ![w].k = 0]
    /\ access' = {}
    /\ UNCHANGED <<fn, args, nthreads, pc, ret, err, result, profile_norm, mi, claimed,
                   wcount, writers, path>>

\* lines 95-98: diff = data - mean; variance += diff * diff
NormVar(w) ==
    /\ fn = "health_data_normalize" /\ pc = "parallel"
    /\ it[w].ph = "var"
    /\ it[w].k < InnerCount
    /\ LET di == Idx(it[w].k, OuterCount, it[w].o)
       IN  /\ \E d \in Load(1, di) :
                 LET diff == Sub(d, acc[Slot(w)].mean)
                 IN  acc' = [acc EXCEPT ![Slot(w)].variance = Add(@, Mul(diff, diff))]
           /\ access' = {<<1, di>>}
    /\ NextK(w)
    /\ UNCHANGED <<fn, args, nthreads, pc, ret, err, result, profile_norm, mi, claimed,
                   wcount, writers, path>>

\* the epsilon left out: sqrtf(variance)
StdDevNoEps(variance) == Sqrt(variance)

\* line 100: sqrtf(variance + 1e-8f)
StdDev(variance) == Sqrt(Add(variance, EPS))

\* lines 99-100: variance /= n_samples; std = sqrtf(variance + 1e-8f)
NormVarEnd(w) ==
    /\ fn = "health_data_normalize" /\ pc = "parallel"
    /\ it[w].ph = "var"
    /\ it[w].k >= InnerCount
    /\ LET v == Div(acc[Slot(w)].variance, IntToFloat(InnerCount))
       IN  acc' = [acc EXCEPT ![Slot(w)].variance = v, ![Slot(w)].std = StdDev(v)]
    /\ it' = [it EXCEPT ![w].ph = "write", ![w].k = 0]
    /\ access' = {}
    /\ UNCHANGED <<fn, args, nthreads, pc, ret, err, result, profile_norm, mi, claimed,
                   wcount, writers, path>>

\* lines 103-105: result = (data - mean) / std
NormStore(w) ==
    /\ fn = "health_data_normalize" /\ pc = "parallel"
    /\ it[w].ph = "write"
    /\ it[w].k < InnerCount
    /\ LET di == Idx(it[w].k, OuterCount, it[w].o)
       IN  /\ \E d \in Load(1, di) :
                 Store(w, di, Div(Sub(d, acc[Slot(w)].mean), acc[Slot(w)].std), "standardize")
           /\ access' = {<<1, di>>, <<ResultBuffer, di>>}
    /\ NextK(w)
    /\ UNCHANGED <<fn, nthreads, pc, ret, err, profile_norm, mi, claimed, acc>>

\* line 106: the column is done
NormEnd(w) ==
    /\ fn = "health_data_normalize" /\ pc = "parallel"
    /\ it[w].ph = "write"
    /\ it[w].k >= InnerCount
    /\ EndIter(w)
    /\ access' = {}
    /\ UNCHANGED <<fn, args, nthreads, pc, ret, err, result, profile_norm, mi, claimed,
                   wcount, writers, path>>

\* lines 148-152: dot_product += profile * food; food_norm += food * food
NutrSum(w) ==
    /\ fn = "nutrition_optimization" /\ pc = "parallel"
    /\ it[w].ph = "sum"
    /\ it[w].k < InnerCount
    /\ LET j == it[w].k
           fi == Idx(it[w].o, InnerCount, j)
       IN  /\ \E food_feature \in Load(2, fi), p \in Load(1, j) :
                 acc' = [acc EXCEPT
                            ![Slot(w)].dot_product = Add(@, Mul(p, food_feature)),
                            ![Slot(w)].food_norm = Add(@, Mul(food_feature, food_feature))]
           /\ access' = {<<1, j>>, <<2, fi>>}
    /\ NextK(w)
    /\ UNCHANGED <<fn, args, nthreads, pc, ret, err, result, profile_norm, mi, claimed,
                   wcount, writers, path>>

\* || written for &&
BothPositiveOr(pn, fnorm) == Gt(pn, ZERO) \/ Gt(fnorm, ZERO)

\* line 157: profile_norm > 0.0f && food_norm > 0.0f
BothPositive(pn, fnorm) == Gt(pn, ZERO) /\ Gt(fnorm, ZERO)

\* lines 154-161
NutrStore(w) ==
    /\ fn = "nutrition_optimization" /\ pc = "parallel"
    /\ it[w].ph = "sum"
    /\ it[w].k >= InnerCount
    /\ LET food_norm == Sqrt(acc[Slot(w)].food_norm)
       IN  IF BothPositive(profile_norm, food_norm)
           THEN Store(w, it[w].o,
                      Div(acc[Slot(w)].dot_product, Mul(profile_norm, food_norm)), "divide")
           ELSE Store(w, it[w].o, ZERO, "zero")
    /\ access' = {<<ResultBuffer, it[w].o>>}
    /\ EndIter(w)
    /\ UNCHANGED <<fn, nthreads, pc, ret, err, profile_norm, mi, claimed>>

\* >= written for >
AtOrAboveThreshold(value, threshold) ==
    ~IsNaN(value) /\ ~IsNaN(threshold) /\ value >= threshold

\* line 198: value > threshold
AboveThreshold(value, threshold) == Gt(value, threshold)

\* lines 194-203
BioMap(w) ==
    /\ fn = "biometric_processing" /\ pc = "parallel"
    /\ it[w].ph = "map"
    /\ it[w].k < InnerCount
    /\ LET bi == Idx(it[w].o, InnerCount, it[w].k)
           threshold == args[2].data[1]
       IN  /\ \E value \in Load(1, bi) :
                 IF AboveThreshold(value, threshold)
                 THEN Store(w, bi, Tanh(Sub(value, threshold)), "tanh")
                 ELSE Store(w, bi, Mul(value, TENTH), "scaled")
           /\ access' = {<<1, bi>>, <<ResultBuffer, bi>>}
    /\ NextK(w)
    /\ UNCHANGED <<fn, nthreads, pc, ret, err, profile_norm, mi, claimed, acc>>

\* line 204: the row is done
BioEnd(w) ==
    /\ fn = "biometric_processing" /\ pc = "parallel"
    /\ it[w].ph = "map"
    /\ it[w].k >= InnerCount
    /\ EndIter(w)
    /\ access' = {}
    /\ UNCHANGED <<fn, args, nthreads, pc, ret, err, result, profile_norm, mi, claimed,
                   wcount, writers, path>>

\* lines 238-241: diff = query - db; similarity += expf(-diff * diff)
PatSum(w) ==
    /\ fn = "pattern_matching" /\ pc = "parallel"
    /\ it[w].ph = "sum"
    /\ it[w].k < InnerCount
    /\ LET j == it[w].k
           di == Idx(it[w].o, InnerCount, j)
       IN  /\ \E q \in Load(1, j), d \in Load(2, di) :
                 LET diff == Sub(q, d)
                 IN  acc' = [acc EXCEPT
                                ![Slot(w)].similarity = Add(@, Exp(Mul(Neg(diff), diff)))]
           /\ access' = {<<1, j>>, <<2, di>>}
    /\ NextK(w)
    /\ UNCHANGED <<fn, args, nthreads, pc, ret, err, result, profile_norm, mi, claimed,
                   wcount, writers, path>>

\* line 243: result = similarity / pattern_length
PatStore(w) ==
    /\ fn = "pattern_matching" /\ pc = "parallel"
    /\ it[w].ph = "sum"
    /\ it[w].k >= InnerCount
    /\ Store(w, it[w].o, Div(acc[Slot(w)].similarity, IntToFloat(InnerCount)), "mean")
    /\ access' = {<<ResultBuffer, it[w].o>>}
    /\ EndIter(w)
    /\ UNCHANGED <<fn, nthreads, pc, ret, err, profile_norm, mi, claimed>>

\* ---------------------------------------------------------------- calls

MaxWorkers == 2
MaxRows == 2
MaxCols == 2

\* n floats taken in turn from a palette, starting at its s-th value
Cyclic(pal, s, n) == [k \in 1..n |-> pal[((s + k - 2) % Len(pal)) + 1]]

Vector(data) == Array("float32", <<Len(data)>>, data)
Matrix(r, c, data) == Array("float32", <<r, c>>, data)

\* a call whose arrays have the ndim and dtype the kernel relies on: an r x c matrix
\* with data dm, vectors with data d1 and d2, threshold t
Call(f, r, c, d1, d2, dm, t) ==
    CASE f = "tcm_syndrome_analysis" -> <<Vector(d1), Vector(d2), Matrix(r, c, dm)>>
      [] f = "health_data_normalize" -> <<Matrix(r, c, dm)>>
      [] f = "nutrition_optimization" -> <<Vector(d1), Matrix(r, c, dm)>>
      [] f = "biometric_processing" -> <<Matrix(r, c, dm), PyFloat(t)>>
      [] f = "pattern_matching" -> <<Vector(d1), Matrix(r, c, dm)>>

\* calls with an argument missing, one too many, an argument of another type, or an
\* ndarray whose elements are not floats (dtype=object)
BadArgsOf(g) ==
    {SubSeq(g, 1, Len(g) - 1), Append(g, PyStr)}
        \cup {[g EXCEPT ![k] = PyStr] : k \in 1..Len(g)}
        \cup {[g EXCEPT ![k].dtype = "object"] : k \in {j \in 1..Len(g) : g[j].type = "ndarray"}}

Start(f, a, n) ==
    /\ fn = f
    /\ args = a
    /\ nthreads = n
    /\ pc = "parse"
    /\ ret = "none"
    /\ err = "none"
    /\ result = <<>>
    /\ profile_norm = ZERO
    /\ mi = 0
    /\ claimed = {}
    /\ it = [w \in 1..n |-> Idle]
    /\ acc = [w \in 1..n |-> Locals]
    /\ access = {}
    /\ wcount = <<>>
    /\ writers = <<>>
    /\ path = <<>>

\* values whose sums depend on the order of addition: 1.0 + 1/16 rounds back to 1.0
SchedPalette == <<ONE, 16, 16, -96>>

SchedCall(f, r, c, l1, l2, sm) ==
    Call(f, r, c, Cyclic(SchedPalette, 1, l1), Cyclic(SchedPalette, 2, l2),
         Cyclic(SchedPalette, sm, r * c), 16)

\* Spec: every entry point, teams of 1..MaxWorkers threads, matrices up to
\* MaxRows x MaxCols with vectors of the matching length, and the failing calls
SchedArgs(f) ==
    {SchedCall(f, r, c, c, c, sm) : r \in 0..MaxRows, c \in 0..MaxCols, sm \in 1..3}
        \cup BadArgsOf(SchedCall(f, 1, 1, 1, 1, 1))

Init ==
    \E f \in Kernels, n \in 1..MaxWorkers :
        \E a \in SchedArgs(f) : Start(f, a, n)

\* SpecValues: one thread (OMP_NUM_THREADS=1) and buffers filled from a palette with
\* zero, one, the largest and the smallest float and values that round
ValRows == 3
ValCols == 2

ValPalette == <<ZERO, ONE, 0 - ONE, KMax, 448, 1, PInf>>

Fills(n) ==
    {[k \in 1..n |-> ValPalette[s]] : s \in 1..Len(ValPalette)}
        \cup {Cyclic(ValPalette, s, n) : s \in 1..Len(ValPalette)}

ValArgs(f) ==
    LET ws(c) == IF f = "tcm_syndrome_analysis"
                 THEN {[k \in 1..c |-> v] : v \in {ONE, 0 - ONE, KMax}} ELSE {<<>>}
        ts == IF f = "biometric_processing" THEN {ZERO, ONE, 448} ELSE {ZERO}
        vs(c) == IF f \in {"health_data_normalize", "biometric_processing"}
                 THEN {<<>>} ELSE Fills(c)
    IN  UNION {UNION {{Call(f, r, c, d1, d2, dm, t) :
                          d1 \in vs(c), d2 \in ws(c), dm \in Fills(r * c), t \in ts} :
                      r \in 0..ValRows} : c \in 0..ValCols}
            \cup BadArgsOf(SchedCall(f, 1, 1, 1, 1, 1))

InitValues == \E f \in Kernels : \E a \in ValArgs(f) : Start(f, a, 1)

\* lengths that agree with the row width c or miss it by one
Near(c) == {l \in {c - 1, c, c + 1} : l >= 0 /\ l <= MaxCols}

\* SpecDims: the calls of Spec and the calls whose first vector, or whose weights, are
\* one shorter or one longer than the matrix rows
DimsArgs(f) ==
    UNION {{SchedCall(f, r, c, l1, c, 1) : r \in 0..MaxRows, l1 \in Near(c)}
               \cup {SchedCall(f, MaxRows, c, c, l2, 1) : l2 \in Near(c)} : c \in 0..MaxCols}
        \cup BadArgsOf(SchedCall(f, 1, 1, 1, 1, 1))

InitDims ==
    \E f \in Kernels, n \in 1..MaxWorkers :
        \E a \in DimsArgs(f) : Start(f, a, n)

\* SpecFair: the empty and the largest calls of Spec, and the failing calls
FairArgs(f) ==
    {SchedCall(f, r, c, c, c, 1) : r \in {0, MaxRows}, c \in {0, MaxCols}}
        \cup BadArgsOf(SchedCall(f, 1, 1, 1, 1, 1))

InitFair ==
    \E f \in Kernels, n \in 1..MaxWorkers :
        \E a \in FairArgs(f) : Start(f, a, n)

\* a read outside its buffer may also end the process
Segfault ==
    /\ pc \in {"norm", "parallel"}
    /\ \E a \in access : a[1] # 0 /\ ~(a[2] >= 0 /\ a[2] < BufLen(a[1]))
    /\ pc' = "fault"
    /\ UNCHANGED <<fn, args, nthreads, ret, err, result, profile_norm, mi, claimed, it,
                   acc, access, wcount, writers, path>>

Next ==
    \/ ParseFail
    \/ ParseOk
    \/ CheckFail
    \/ CheckOk
    \/ Alloc
    \/ ProfileNormStep
    \/ ProfileNormEnd
    \/ Return
    \/ \E w \in Threads : BeginIter(w)
    \/ \E w \in Threads : TcmSum(w)
    \/ \E w \in Threads : TcmStore(w)
    \/ \E w \in Threads : NormMean(w)
    \/ \E w \in Threads : NormMeanEnd(w)
    \/ \E w \in Threads : NormVar(w)
    \/ \E w \in Threads : NormVarEnd(w)
    \/ \E w \in Threads : NormStore(w)
    \/ \E w \in Threads : NormEnd(w)
    \/ \E w \in Threads : NutrSum(w)
    \/ \E w \in Threads : NutrStore(w)
    \/ \E w \in Threads : BioMap(w)
    \/ \E w \in Threads : BioEnd(w)
    \/ \E w \in Threads : PatSum(w)
    \/ \E w \in Threads : PatStore(w)

Spec == Init /\ [][Next]_vars

SpecValues == InitValues /\ [][Next]_vars

NextDims == Next \/ Segfault

SpecDims == InitDims /\ [][NextDims]_vars

\* the steps of the calling thread and of OpenMP thread w
MainStep ==
    \/ ParseFail \/ ParseOk \/ CheckFail \/ CheckOk \/ Alloc
    \/ ProfileNormStep \/ ProfileNormEnd \/ Return

ThreadStep(w) ==
    /\ w \in Threads
    /\ \/ BeginIter(w) \/ TcmSum(w) \/ TcmStore(w)
       \/ NormMean(w) \/ NormMeanEnd(w) \/ NormVar(w) \/ NormVarEnd(w)
       \/ NormStore(w) \/ NormEnd(w)
       \/ NutrSum(w) \/ NutrStore(w) \/ BioMap(w) \/ BioEnd(w)
       \/ PatSum(w) \/ PatStore(w)

\* every thread that can take a step eventually takes one
SpecFair ==
    /\ InitFair /\ [][Next]_vars
    /\ WF_vars(MainStep)
    /\ \A w \in 1..MaxWorkers : WF_vars(ThreadStep(w))

\* ---------------------------------------------------------------- properties

MatRows == args[MatArg].dims[1]
MatCols == args[MatArg].dims[2]
Data(b, idx) == args[b].data[idx + 1]

\* the call got past parsing and type checking: its arguments are the arrays it asked for
ValidCall == PyArg_ParseTuple /\ \A k \in ArrayArgs : PyArray_Check(args[k])

\* the shape section 6 of the specification gives the output
ExpectedSize ==
    CASE fn \in {"health_data_normalize", "biometric_processing"} -> MatRows * MatCols
      [] OTHER -> MatRows

Written(k) == k \in 1..Len(wcount) /\ wcount[k] >= 1

\* the output elements of outer iteration o: element o, row o, or column o
Region(o) ==
    CASE fn = "biometric_processing" -> {o * MatCols + j : j \in 0..(MatCols - 1)}
      [] fn = "health_data_normalize" -> {i * MatCols + o : i \in 0..(MatRows - 1)}
      [] OTHER -> {o}

\* C1: every store to the output goes to an element of the outer iteration its thread
\* owns, no element is stored to by two different threads, and the elements of
\* different outer iterations are disjoint.
C1_DisjointWrites ==
    /\ \A k \in 1..Len(writers) :
          /\ \A x \in writers[k] : (k - 1) \in Region(x[2])
          /\ Cardinality({x[1] : x \in writers[k]}) <= 1
    /\ pc = "parallel" =>
          \A o1, o2 \in 0..(OuterCount - 1) : o1 # o2 => Region(o1) \cap Region(o2) = {}

\* two threads have stored, each to its own elements
C1_Witness ==
    /\ ret = "result"
    /\ \E k1, k2 \in 1..Len(writers) :
          \E x \in writers[k1], y \in writers[k2] : x[1] # y[1]

\* the call returns a result only with every thread idle and every element of an
\* output of the expected shape stored exactly once
ReturnsComplete ==
    ret = "result" =>
        /\ \A w \in Threads : it[w].ph = "idle"
        /\ Len(result) = ExpectedSize
        /\ \A k \in 1..Len(result) : wcount[k] = 1 /\ result[k] # Uninit

\* C2: a call on arrays returns, and returns only after every thread has joined, with
\* every element of an output of the stated shape written exactly once.
C2_ReturnsAfterJoin ==
    /\ []ReturnsComplete
    /\ [](\A k \in 1..Len(wcount) : wcount[k] <= 1)
    /\ ValidCall => <>(ret = "result")

\* a call returned an output of at least two elements that two threads filled
C2_Witness ==
    /\ ret = "result"
    /\ Len(result) >= 2
    /\ \E k1, k2 \in 1..Len(writers) :
          \E x \in writers[k1], y \in writers[k2] : x[1] # y[1]

\* squared norm of the first j elements of the profile, and the profile's norm
RECURSIVE RefProfileSq(_)
RefProfileSq(j) ==
    IF j = 0 THEN ZERO
    ELSE Add(RefProfileSq(j - 1), Mul(Data(1, j - 1), Data(1, j - 1)))

RefProfileNorm == Sqrt(RefProfileSq(MatCols))

RECURSIVE RefRowSq(_, _)
RefRowSq(i, j) ==
    IF j = 0 THEN ZERO
    ELSE LET f == Data(2, i * MatCols + j - 1)
         IN  Add(RefRowSq(i, j - 1), Mul(f, f))

RefRowNorm(i) == Sqrt(RefRowSq(i, MatCols))

RECURSIVE RefDot(_, _)
RefDot(i, j) ==
    IF j = 0 THEN ZERO
    ELSE Add(RefDot(i, j - 1), Mul(Data(1, j - 1), Data(2, i * MatCols + j - 1)))

\* C3: a row whose norm, or whose profile's norm, is exactly 0 gets exactly 0 without a
\* division; the division runs only with both norms above 0; an all-zero profile
\* gives 0 for every row.
C3_ZeroNormGivesZero ==
    fn = "nutrition_optimization" =>
        \A k \in 1..Len(result) : Written(k) =>
            /\ (RefProfileNorm = ZERO \/ RefRowNorm(k - 1) = ZERO) =>
                   (result[k] = ZERO /\ path[k] = "zero")
            /\ path[k] = "divide" =>
                   (Gt(RefProfileNorm, ZERO) /\ Gt(RefRowNorm(k - 1), ZERO))
            /\ (\A j \in 0..(MatCols - 1) : Data(1, j) = ZERO) => result[k] = ZERO

\* a row of zeros under a profile that is not zero, and a row that is not zero under
\* the same profile: the first took the zero branch, the second the division
C3_Witness ==
    /\ fn = "nutrition_optimization"
    /\ ret = "result"
    /\ Gt(RefProfileNorm, ZERO)
    /\ \E k1, k2 \in 1..Len(result) :
          /\ RefRowNorm(k1 - 1) = ZERO /\ path[k1] = "zero" /\ result[k1] = ZERO
          /\ path[k2] = "divide"

\* C4: an element is the tanh branch of (value - threshold) exactly when value >
\* threshold, and value * 0.1 otherwise, also at value = threshold; one store each.
C4_StrictThreshold ==
    fn = "biometric_processing" =>
        \A k \in 1..Len(result) : Written(k) =>
            LET value == Data(1, k - 1)
                threshold == args[2].data[1]
            IN  /\ path[k] = "tanh" <=> Gt(value, threshold)
                /\ path[k] = "scaled" <=> ~Gt(value, threshold)
                /\ result[k] = IF Gt(value, threshold)
                               THEN Tanh(Sub(value, threshold))
                               ELSE Mul(value, TENTH)
                /\ wcount[k] = 1

\* an element equal to a threshold that is not zero went through the scaled branch,
\* and an element above it through tanh
C4_Witness ==
    /\ fn = "biometric_processing"
    /\ ret = "result"
    /\ args[2].data[1] # ZERO
    /\ \E k1, k2 \in 1..Len(result) :
          /\ Data(1, k1 - 1) = args[2].data[1]
          /\ path[k1] = "scaled" /\ result[k1] = Mul(args[2].data[1], TENTH)
          /\ path[k2] = "tanh"

NumericArray(o) == o.type = "ndarray" /\ o.dtype = "float32"

\* C5 (as claimed): the call fails exactly when an array argument is not a numeric
\* array; it then sets the type error, allocates nothing and runs no loop; every
\* other call returns an output buffer.
C5_FailsOnlyOnTypeMismatch ==
    pc = "done" =>
        LET bad == \E k \in ArrayArgs \cap (1..Len(args)) : ~NumericArray(args[k])
        IN  /\ ret = "NULL" <=> bad
            /\ ret = "NULL" => (err = "TypeError" /\ result = <<>> /\ claimed = {})
            /\ ret # "NULL" => (ret = "result" /\ err = "none")

\* the score of row i after its first j terms
RECURSIVE RefScore(_, _)
RefScore(i, j) ==
    IF j = 0 THEN ZERO
    ELSE Add(RefScore(i, j - 1),
             Mul(Mul(Data(1, j - 1), Data(2, j - 1)), Data(3, i * MatCols + j - 1)))

\* C6 (as claimed): every element of the syndrome output is strictly between 0 and 1.
C6_StrictlyInside ==
    fn = "tcm_syndrome_analysis" =>
        \A k \in 1..Len(result) : Written(k) => (result[k] > ZERO /\ result[k] < ONE)

\* C6 (amended): every element of the syndrome output is in the closed interval
\* [0, 1], or is NaN and then the accumulated score is NaN.
C6_ClosedUnitOrNaN ==
    fn = "tcm_syndrome_analysis" =>
        \A k \in 1..Len(result) : Written(k) =>
            \/ result[k] >= ZERO /\ result[k] <= ONE
            \/ IsNaN(result[k]) /\ IsNaN(RefScore(k - 1, MatCols))

\* an output that holds exactly 1 and exactly 0
C6_Witness ==
    /\ fn = "tcm_syndrome_analysis"
    /\ ret = "result"
    /\ \E k1, k2 \in 1..Len(result) : result[k1] = ONE /\ result[k2] = ZERO

\* column j: sum of its first i rows, mean, variance and the divisor
RECURSIVE RefColSum(_, _)
RefColSum(j, i) ==
    IF i = 0 THEN ZERO ELSE Add(RefColSum(j, i - 1), Data(1, (i - 1) * MatCols + j))

RefMean(j) == Div(RefColSum(j, MatRows), IntToFloat(MatRows))

RECURSIVE RefVarSum(_, _)
RefVarSum(j, i) ==
    IF i = 0 THEN ZERO
    ELSE LET diff == Sub(Data(1, (i - 1) * MatCols + j), RefMean(j))
         IN  Add(RefVarSum(j, i - 1), Mul(diff, diff))

RefStd(j) == Sqrt(Add(Div(RefVarSum(j, MatRows), IntToFloat(MatRows)), EPS))

ConstantColumn(j) == \A i \in 0..(MatRows - 1) : Data(1, i * MatCols + j) = Data(1, j)

ColumnIsZero(j) == \A i \in 0..(MatRows - 1) : result[i * MatCols + j + 1] = ZERO

ColumnIsFinite(j) == \A i \in 0..(MatRows - 1) : IsFinite(Data(1, i * MatCols + j))

DivisorPositive ==
    \A w \in Threads : it[w].ph = "write" => Gt(acc[Slot(w)].std, ZERO)

\* the divisor is above 0, or NaN in a column that holds an infinity
DivisorPositiveOrNaN ==
    \A w \in Threads : it[w].ph = "write" =>
        \/ Gt(acc[Slot(w)].std, ZERO)
        \/ IsNaN(acc[Slot(w)].std) /\ ~ColumnIsFinite(it[w].o)

C8_InputsUnchanged == [][args' = args]_vars

\* a call returned with every output element stored
C8_Witness ==
    /\ ret = "result"
    /\ Len(result) >= 2
    /\ \A k \in 1..Len(result) : wcount[k] = 1

\* the paired inputs have the lengths the kernel assumes
DimsAgree ==
    CASE fn = "tcm_syndrome_analysis" ->
             Len(args[1].data) = MatCols /\ Len(args[2].data) = MatCols
      [] fn \in {"nutrition_optimization", "pattern_matching"} ->
             Len(args[1].data) = MatCols
      [] OTHER -> TRUE

InBounds(a) == a[2] >= 0 /\ a[2] < BufLen(a[1])

\* C9: when the lengths of the paired inputs agree, every index a step reads or
\* writes lies inside its buffer.
C9_InBounds == (access # {} /\ DimsAgree) => \A a \in access : InBounds(a)

\* a step read the last element of a full-size matrix and of its vector
C9_Witness ==
    /\ access # {}
    /\ DimsAgree
    /\ Len(args[MatArg].data) = MaxRows * MaxCols
    /\ <<MatArg, MaxRows * MaxCols - 1>> \in access
    /\ <<1, MaxCols - 1>> \in access

\* the similarity of row i after its first j terms
RECURSIVE RefSimilarity(_, _)
RefSimilarity(i, j) ==
    IF j = 0 THEN ZERO
    ELSE LET diff == Sub(Data(1, j - 1), Data(2, i * MatCols + j - 1))
         IN  Add(RefSimilarity(i, j - 1), Exp(Mul(Neg(diff), diff)))

\* the output of the sequential program: each element from its own row (or column),
\* summed in the order j = 0 .. n-1
RefElement(k) ==
    CASE fn = "tcm_syndrome_analysis" -> Sigmoid(RefScore(k, MatCols))
      [] fn = "health_data_normalize" ->
             Div(Sub(Data(1, k), RefMean(k % MatCols)), RefStd(k % MatCols))
      [] fn = "nutrition_optimization" ->
             IF Gt(RefProfileNorm, ZERO) /\ Gt(RefRowNorm(k), ZERO)
             THEN Div(RefDot(k, MatCols), Mul(RefProfileNorm, RefRowNorm(k)))
             ELSE ZERO
      [] fn = "biometric_processing" ->
             IF Gt(Data(1, k), args[2].data[1])
             THEN Tanh(Sub(Data(1, k), args[2].data[1]))
             ELSE Mul(Data(1, k), TENTH)
      [] fn = "pattern_matching" -> Div(RefSimilarity(k, MatCols), IntToFloat(MatCols))

\* C10: whatever the team size and the interleaving, the returned output is the
\* output of the sequential program on the same inputs.
C10_ScheduleIndependent ==
    ret = "result" => result = [k \in 1..ExpectedSize |-> RefElement(k - 1)]

\* two threads filled an output of at least two elements, interleaved
C10_Witness ==
    /\ ret = "result"
    /\ nthreads >= 2
    /\ InnerCount >= 2
    /\ \E k1, k2 \in 1..Len(writers) :
          \E x \in writers[k1], y \in writers[k2] : x[1] # y[1]

=============================================================================
